---- MODULE Spec2Model ----
(***************************************************************************)
(* Model of src/src/App.tsx: the React component App that merges           *)
(* predictions and labels, indexes them by second, filters them by         *)
(* classifier and model, and keeps a ReactPlayer (primary engine) and a    *)
(* Peaks instance (secondary engine) side by side.                         *)
(*                                                                         *)
(* Conventions.                                                            *)
(*  - Times are integers in milliseconds.  playedSeconds, a float in the   *)
(*    code, is kept in milliseconds too; Math.round of it is RoundMs.      *)
(*  - An optional field of a JavaScript object is a sequence of length 0   *)
(*    (the field is absent: `"f" in p` is false) or 1 (present).  A model  *)
(*    field that is present but undefined or "" is <<"">>: the code reads  *)
(*    it only through `p.model || ""`.                                     *)
(*  - A bucket of predictionsByTime holds references to the objects of     *)
(*    state.predictions; a reference is the object's position there.       *)
(***************************************************************************)
EXTENDS Integers, Sequences, FiniteSets, TLC

VARIABLES
    propsPredictions,     \* this.props.predictions
    propsLabels,          \* this.props.labels: <<>> absent, <<list>> present
    mounted,              \* componentDidMount has run
    predictions,          \* state.predictions
    models,               \* state.models
    classifications,      \* state.classifications
    predictionsByTime,    \* state.predictionsByTime
    currentPlaybackTime,  \* state.currentPlaybackTime, in ms
    playing,              \* state.playing
    sourceUrl,            \* state.sourceUrl is truthy
    peakInstance,         \* state.peakInstance is set
    waveformReady,        \* state.waveformReady
    peaksError,           \* state.peaksError is set
    peaksInit,            \* the options of every Peaks.init call so far
    primaryCmd,           \* seekTo calls on the ReactPlayer by the last handler
    peaksCmd,             \* calls on peakInstance.player by the last handler
    primaryPlaying,       \* the primary's media element is playing
    seeked,               \* the primary's seeked event that is due: <<position>>
    playerSeek,           \* the Peaks player_seek event that is due: <<position>>
    metadataLoaded,       \* the primary's media element has its metadata
    seekToParity          \* the number of seekTo calls so far, modulo 2

vars == <<propsPredictions, propsLabels, mounted, predictions, models,
          classifications, predictionsByTime, currentPlaybackTime, playing,
          sourceUrl, peakInstance, waveformReady, peaksError, peaksInit,
          primaryCmd, peaksCmd, primaryPlaying, seeked, playerSeek,
          metadataLoaded, seekToParity>>

(***************************************************************************)
(* Bounds of the model.                                                    *)
(***************************************************************************)
MaxPredictions == 2
MaxLabels == 1
MaxLoadPredictions == 3
MaxLoadLabels == 2
MaxHalfSeconds == 3
MaxSeekHalfSeconds == 2

MsPerSecond == 1000

\* The defaults of the destructuring in render.
UnknownSize == -1
OffsetWidth == 640
OffsetHeight == 360

(***************************************************************************)
(* Annotations: IVideoPrediction / IAudioPrediction / IVideoLabel /        *)
(* IAudioLabel.                                                            *)
(***************************************************************************)
Box(x, y, w, h) == [x |-> x, y |-> y, width |-> w, height |-> h]

VideoPrediction(c, t, b, m, conf) ==
    [classifier |-> c, time |-> t, duration |-> <<>>, box |-> <<b>>,
     model |-> m, confidence |-> <<conf>>]

AudioPrediction(c, t, d, m, conf) ==
    [classifier |-> c, time |-> t, duration |-> <<d>>, box |-> <<>>,
     model |-> m, confidence |-> <<conf>>]

VideoLabel(c, t, b) ==
    [classifier |-> c, time |-> t, duration |-> <<>>, box |-> <<b>>,
     model |-> <<>>, confidence |-> <<>>]

AudioLabel(c, t, d) ==
    [classifier |-> c, time |-> t, duration |-> <<d>>, box |-> <<>>,
     model |-> <<>>, confidence |-> <<>>]

HasDuration(p) == Len(p.duration) = 1
HasModel(p) == Len(p.model) = 1
HasBox(p) == Len(p.box) = 1

\* p.model || ""
ModelOrEmpty(p) == IF HasModel(p) THEN p.model[1] ELSE ""

BoundedSeq(S, n) == UNION {[1..k -> S] : k \in 0..n}

Range(s) == {s[i] : i \in DOMAIN s}

(***************************************************************************)
(* Math.round(ms / 1000) and Math.ceil(ms / 1000) on integer milliseconds. *)
(* Math.round rounds half up: floor(x + 0.5).                              *)
(***************************************************************************)
\* Variant: Math.floor in place of Math.round.
RoundMsFloor(ms) == ms \div MsPerSecond

\* Math.round(ms / 1000)
RoundMs(ms) == (ms + (MsPerSecond \div 2)) \div MsPerSecond

\* Variant: Math.floor in place of Math.ceil.
CeilMsFloor(ms) == ms \div MsPerSecond

\* Math.ceil(ms / 1000)
CeilMs(ms) == -((-ms) \div MsPerSecond)

(***************************************************************************)
(* componentDidMount: merge, sort, seed the filters, build the index.      *)
(***************************************************************************)
\* { ...p, model: "Ground-Truth", confidence: 1.0 }
LabelToPrediction(l) ==
    [l EXCEPT !.model = <<"Ground-Truth">>, !.confidence = <<1>>]

\* this.props.labels || []
LabelsOrEmpty(labels) == IF Len(labels) = 1 THEN labels[1] ELSE <<>>

MergeInputs(preds, labels) ==
    preds \o [i \in 1..Len(LabelsOrEmpty(labels)) |->
                 LabelToPrediction(LabelsOrEmpty(labels)[i])]

\* Variant: an insertion that puts x before the elements of equal time.
RECURSIVE InsertUnstable(_, _)
InsertUnstable(x, sorted) ==
    IF sorted = <<>> THEN <<x>>
    ELSE IF x.time <= Head(sorted).time THEN <<x>> \o sorted
    ELSE <<Head(sorted)>> \o InsertUnstable(x, Tail(sorted))

\* One insertion of Array.prototype.sort with (a, b) => a.time - b.time:
\* x goes behind every element that does not compare greater (stable).
RECURSIVE InsertByTime(_, _)
InsertByTime(x, sorted) ==
    IF sorted = <<>> THEN <<x>>
    ELSE IF x.time < Head(sorted).time THEN <<x>> \o sorted
    ELSE <<Head(sorted)>> \o InsertByTime(x, Tail(sorted))

RECURSIVE SortFrom(_, _, _)
SortFrom(sorted, s, i) ==
    IF i > Len(s) THEN sorted
    ELSE SortFrom(InsertByTime(s[i], sorted), s, i + 1)

SortByTime(s) == SortFrom(<<>>, s, 1)

\* Variant: without .filter(e => e).
SeedModelsWithEmpty(preds) ==
    [m \in {ModelOrEmpty(p) : p \in Range(preds)} |-> TRUE]

\* [...new Set(predictions.map(p => p.model || ""))].filter(e => e)
\*    .reduce((carry, model) => ({ ...carry, [model]: true }), {})
SeedModels(preds) ==
    [m \in {ModelOrEmpty(p) : p \in Range(preds)} \ {""} |-> TRUE]

\* predictions.reduce((categories, {classifier}) =>
\*    ({ ...categories, [classifier]: true }), {})
SeedClassifications(preds) ==
    [c \in {p.classifier : p \in Range(preds)} |-> TRUE]

EmptyIndex == [s \in {} |-> <<>>]

\* "duration" in p ? Math.ceil(p.duration / 1000) : 1
SpanSeconds(p) == IF HasDuration(p) THEN CeilMs(p.duration[1]) ELSE 1

\* for (let i = 0; i < seconds; i++) { carry[timeS + i] = carry[timeS + i] || [];
\*                                     carry[timeS + i].push(p); }
RECURSIVE PushSpan(_, _, _, _, _)
PushSpan(carry, ref, timeS, i, seconds) ==
    IF i >= seconds THEN carry
    ELSE LET time == timeS + i
             old == IF time \in DOMAIN carry THEN carry[time] ELSE <<>>
             next == [s \in DOMAIN carry \cup {time} |->
                         IF s = time THEN Append(old, ref) ELSE carry[s]]
         IN  PushSpan(next, ref, timeS, i + 1, seconds)

RECURSIVE IndexFrom(_, _, _)
IndexFrom(carry, preds, ref) ==
    IF ref > Len(preds) THEN carry
    ELSE IndexFrom(PushSpan(carry, ref, RoundMs(preds[ref].time), 0,
                            SpanSeconds(preds[ref])),
                   preds, ref + 1)

BuildIndex(preds) == IndexFrom(EmptyIndex, preds, 1)

(***************************************************************************)
(* componentDidUpdate: Peaks.init runs when there is no instance yet and   *)
(* both refs are set.  The refs (peaksContainerRef, peaksAudioRef) are     *)
(* set by a render with a truthy sourceUrl.                                *)
(***************************************************************************)
DidUpdateInstance(instance, url) == instance \/ url

\* Variant: without the test of this.state.peakInstance.
PeaksInitRunsAlways(instance, url) == url

\* !this.state.peakInstance && peaksContainer && peaksMedia
PeaksInitRuns(instance, url) == ~instance /\ url

\* x && y && width && height && time
IsVideo(p) ==
    /\ HasBox(p)
    /\ p.box[1].x # 0 /\ p.box[1].y # 0
    /\ p.box[1].width # 0 /\ p.box[1].height # 0
    /\ p.time # 0

\* audioSegments: startTime = p.time / 1000, endTime = p.time + p.duration / 1000,
\* both kept in ms
AudioSegment(p) ==
    [startMs |-> p.time, endMs |-> p.time * MsPerSecond + p.duration[1],
     labelText |-> p.classifier]

\* videoPoints: time = p.time / 1000, kept in ms
VideoPoint(p) == [timeMs |-> p.time, labelText |-> p.classifier]

\* The segments and points handed to Peaks.init.
PeaksOptions(preds) ==
    LET audioPredictions == SelectSeq(preds, HasDuration)
        videoPredictions == SelectSeq(preds, IsVideo)
    IN  [segments |-> [i \in 1..Len(audioPredictions) |->
                          AudioSegment(audioPredictions[i])],
         points |-> [i \in 1..Len(videoPredictions) |->
                        VideoPoint(videoPredictions[i])]]

\* The Peaks.init calls after a componentDidUpdate that finds `instance`,
\* `url` and state.predictions = preds.
DidUpdateInit(inits, instance, url, preds) ==
    IF PeaksInitRuns(instance, url) THEN Append(inits, PeaksOptions(preds))
    ELSE inits

(***************************************************************************)
(* render: the bucket lookup and the filters.                              *)
(***************************************************************************)
\* What JavaScript reads as undefined; 0 is no reference.
Undefined == <<0>>

\* index[second]
Lookup(index, second) ==
    IF second \in DOMAIN index THEN index[second] ELSE Undefined

\* Variant: without `|| []`.
OrEmptyMissing(v) == v

\* v || []
OrEmpty(v) == IF v = Undefined THEN <<>> ELSE v

\* map[key] is truthy
Enabled(map, key) == key \in DOMAIN map /\ map[key]

\* classifications[p.classifier] && "model" in p ? !!models[p.model || ""] : true
\* The conditional operator binds weaker than &&.
PassesFilter(cls, mdl, p) ==
    IF Enabled(cls, p.classifier) /\ HasModel(p)
    THEN Enabled(mdl, ModelOrEmpty(p))
    ELSE TRUE

\* pDuration && time
IsAudio(p) == HasDuration(p) /\ p.duration[1] # 0 /\ p.time # 0

\* refs.filter(...), `keep` being the references that pass the test; calling
\* filter on undefined throws, which is kept as Undefined.
FilterRefs(refs, keep) ==
    IF refs = Undefined THEN Undefined
    ELSE SelectSeq(refs, LAMBDA ref : ref \in keep)

\* (index[second] || []).filter(...): currentPredictions for `second`
FilteredBucket(index, preds, cls, mdl, second) ==
    FilterRefs(OrEmpty(Lookup(index, second)),
               {ref \in DOMAIN preds : PassesFilter(cls, mdl, preds[ref])})

\* currentVideoPredictions for `second`
VideoOf(index, preds, cls, mdl, second) ==
    FilterRefs(FilterRefs(FilteredBucket(index, preds, cls, mdl, second),
                          {ref \in DOMAIN preds : IsVideo(preds[ref])}),
               {ref \in DOMAIN preds : Enabled(cls, preds[ref].classifier)})

\* currentAudioPredictions for `second`
AudioOf(index, preds, cls, mdl, second) ==
    FilterRefs(FilterRefs(FilteredBucket(index, preds, cls, mdl, second),
                          {ref \in DOMAIN preds : IsAudio(preds[ref])}),
               {ref \in DOMAIN preds : Enabled(cls, preds[ref].classifier)})

\* Math.round(currentPlaybackTime)
CurrentSecond == RoundMs(currentPlaybackTime)

currentPredictions ==
    FilteredBucket(predictionsByTime, predictions, classifications, models,
                   CurrentSecond)

currentVideoPredictions ==
    VideoOf(predictionsByTime, predictions, classifications, models,
            CurrentSecond)

currentAudioPredictions ==
    AudioOf(predictionsByTime, predictions, classifications, models,
            CurrentSecond)

(***************************************************************************)
(* The handlers.  Every setState is followed by a render and by            *)
(* componentDidUpdate.                                                     *)
(***************************************************************************)
\* A handler that calls neither engine; the engines keep their state.
Quiet ==
    /\ primaryCmd' = <<>>
    /\ peaksCmd' = <<>>
    /\ UNCHANGED <<primaryPlaying, seeked, playerSeek, metadataLoaded,
                   seekToParity>>

ComponentDidMount ==
    /\ ~mounted
    /\ mounted' = TRUE
    /\ predictions' = SortByTime(MergeInputs(propsPredictions, propsLabels))
    /\ models' = SeedModels(predictions')
    /\ classifications' = SeedClassifications(predictions')
    /\ predictionsByTime' = BuildIndex(predictions')
    /\ peakInstance' = DidUpdateInstance(peakInstance, sourceUrl)
    /\ peaksInit' = DidUpdateInit(peaksInit, peakInstance, sourceUrl, predictions')
    /\ Quiet
    /\ UNCHANGED <<propsPredictions, propsLabels, currentPlaybackTime, playing,
                   sourceUrl, waveformReady, peaksError>>

\* Variant: { [key]: checked }, without the spread.
SetEntryNoSpread(map, key, checked) == [k \in {key} |-> checked]

\* { ...map, [key]: checked }
SetEntry(map, key, checked) ==
    [k \in DOMAIN map \cup {key} |-> IF k = key THEN checked ELSE map[k]]

\* Variant: a toggle that also prunes the annotation set and rebuilds the
\* index.
ToggleClassifierPruning(c) ==
    /\ mounted
    /\ c \in DOMAIN classifications
    /\ classifications' = SetEntry(classifications, c, ~classifications[c])
    /\ predictions' = SelectSeq(predictions,
                                LAMBDA p : Enabled(classifications', p.classifier))
    /\ predictionsByTime' = BuildIndex(predictions')
    /\ peakInstance' = DidUpdateInstance(peakInstance, sourceUrl)
    /\ peaksInit' = DidUpdateInit(peaksInit, peakInstance, sourceUrl, predictions')
    /\ Quiet
    /\ UNCHANGED <<propsPredictions, propsLabels, mounted, models,
                   currentPlaybackTime, playing, sourceUrl, waveformReady,
                   peaksError>>

\* The classifier checkbox: e.currentTarget.checked is the negation of the
\* value the controlled checkbox shows.
ToggleClassifier(c) ==
    /\ mounted
    /\ c \in DOMAIN classifications
    /\ classifications' = SetEntry(classifications, c, ~classifications[c])
    /\ peakInstance' = DidUpdateInstance(peakInstance, sourceUrl)
    /\ peaksInit' = DidUpdateInit(peaksInit, peakInstance, sourceUrl, predictions)
    /\ Quiet
    /\ UNCHANGED <<propsPredictions, propsLabels, mounted, predictions, models,
                   predictionsByTime, currentPlaybackTime, playing, sourceUrl,
                   waveformReady, peaksError>>

ToggleModel(m) ==
    /\ mounted
    /\ m \in DOMAIN models
    /\ models' = SetEntry(models, m, ~models[m])
    /\ peakInstance' = DidUpdateInstance(peakInstance, sourceUrl)
    /\ peaksInit' = DidUpdateInit(peaksInit, peakInstance, sourceUrl, predictions)
    /\ Quiet
    /\ UNCHANGED <<propsPredictions, propsLabels, mounted, predictions,
                   classifications, predictionsByTime, currentPlaybackTime,
                   playing, sourceUrl, waveformReady, peaksError>>

PlayedMs == {h * (MsPerSecond \div 2) : h \in 0..MaxHalfSeconds}

\* ReactPlayer onProgress; the player is rendered when sourceUrl is truthy.
OnProgress(playedMs) ==
    /\ mounted /\ sourceUrl
    /\ currentPlaybackTime' = playedMs
    /\ peakInstance' = DidUpdateInstance(peakInstance, sourceUrl)
    /\ peaksInit' = DidUpdateInit(peaksInit, peakInstance, sourceUrl, predictions)
    /\ Quiet
    /\ UNCHANGED <<propsPredictions, propsLabels, mounted, predictions, models,
                   classifications, predictionsByTime, playing, sourceUrl,
                   waveformReady, peaksError>>

\* playPause, the click handler of the player's container
PlayPause ==
    /\ mounted /\ sourceUrl
    /\ playing' = ~playing
    /\ peakInstance' = DidUpdateInstance(peakInstance, sourceUrl)
    /\ peaksInit' = DidUpdateInit(peaksInit, peakInstance, sourceUrl, predictions)
    /\ Quiet
    /\ UNCHANGED <<propsPredictions, propsLabels, mounted, predictions, models,
                   classifications, predictionsByTime, currentPlaybackTime,
                   sourceUrl, waveformReady, peaksError>>

\* <audio> onPlay, onSeeking (true) and onPause (false)
AudioSetPlaying(value) ==
    /\ mounted /\ sourceUrl
    /\ playing' = value
    /\ peakInstance' = DidUpdateInstance(peakInstance, sourceUrl)
    /\ peaksInit' = DidUpdateInit(peaksInit, peakInstance, sourceUrl, predictions)
    /\ Quiet
    /\ UNCHANGED <<propsPredictions, propsLabels, mounted, predictions, models,
                   classifications, predictionsByTime, currentPlaybackTime,
                   sourceUrl, waveformReady, peaksError>>

\* Variant: a ready report that clears the error.
PeaksReadyClearsError ==
    /\ peakInstance
    /\ waveformReady' = TRUE
    /\ peaksError' = FALSE
    /\ peaksInit' = DidUpdateInit(peaksInit, peakInstance, sourceUrl, predictions)
    /\ Quiet
    /\ UNCHANGED <<propsPredictions, propsLabels, mounted, predictions, models,
                   classifications, predictionsByTime, currentPlaybackTime,
                   playing, sourceUrl, peakInstance>>

\* peakInstance.on("peaks.ready")
PeaksReady ==
    /\ peakInstance
    /\ waveformReady' = TRUE
    /\ peaksInit' = DidUpdateInit(peaksInit, peakInstance, sourceUrl, predictions)
    /\ Quiet
    /\ UNCHANGED <<propsPredictions, propsLabels, mounted, predictions, models,
                   classifications, predictionsByTime, currentPlaybackTime,
                   playing, sourceUrl, peakInstance, peaksError>>

\* peakInstance.on("error")
PeaksError ==
    /\ peakInstance
    /\ peaksError' = TRUE
    /\ waveformReady' = TRUE
    /\ peaksInit' = DidUpdateInit(peaksInit, peakInstance, sourceUrl, predictions)
    /\ Quiet
    /\ UNCHANGED <<propsPredictions, propsLabels, mounted, predictions, models,
                   classifications, predictionsByTime, currentPlaybackTime,
                   playing, sourceUrl, peakInstance>>

\* The file input, rendered while sourceUrl is falsy.
SelectLocalFile ==
    /\ mounted /\ ~sourceUrl
    /\ sourceUrl' = TRUE
    /\ peakInstance' = DidUpdateInstance(peakInstance, sourceUrl')
    /\ peaksInit' = DidUpdateInit(peaksInit, peakInstance, sourceUrl', predictions)
    /\ Quiet
    /\ UNCHANGED <<propsPredictions, propsLabels, mounted, predictions, models,
                   classifications, predictionsByTime, currentPlaybackTime,
                   playing, waveformReady, peaksError>>

\* Variant: a componentDidUpdate that derives the annotation set and the
\* index again from the changed props.
PropsChangeReload(newPredictions, newLabels) ==
    /\ mounted
    /\ <<newPredictions, newLabels>> # <<propsPredictions, propsLabels>>
    /\ propsPredictions' = newPredictions
    /\ propsLabels' = newLabels
    /\ predictions' = SortByTime(MergeInputs(newPredictions, newLabels))
    /\ predictionsByTime' = BuildIndex(predictions')
    /\ peakInstance' = DidUpdateInstance(peakInstance, sourceUrl)
    /\ peaksInit' = DidUpdateInit(peaksInit, peakInstance, sourceUrl, predictions')
    /\ Quiet
    /\ UNCHANGED <<mounted, models, classifications, currentPlaybackTime,
                   playing, sourceUrl, waveformReady, peaksError>>

\* The parent renders App again with other lists: props change, a render and
\* componentDidUpdate follow, and no handler of App reads the new lists.
PropsChange(newPredictions, newLabels) ==
    /\ mounted
    /\ <<newPredictions, newLabels>> # <<propsPredictions, propsLabels>>
    /\ propsPredictions' = newPredictions
    /\ propsLabels' = newLabels
    /\ peakInstance' = DidUpdateInstance(peakInstance, sourceUrl)
    /\ peaksInit' = DidUpdateInit(peaksInit, peakInstance, sourceUrl, predictions)
    /\ Quiet
    /\ UNCHANGED <<mounted, predictions, models, classifications,
                   predictionsByTime, currentPlaybackTime, playing, sourceUrl,
                   waveformReady, peaksError>>

(***************************************************************************)
(* The two engines.  The primary is the ReactPlayer of render, the         *)
(* secondary the Peaks instance of componentDidUpdate.  A handler's calls  *)
(* on an engine are recorded in primaryCmd and peaksCmd; an engine's       *)
(* event that is due is held in seeked and playerSeek.                     *)
(***************************************************************************)
\* Seek positions are the half seconds 0 .. MaxSeekHalfSeconds / 2 s, in ms.
SeekMs == {h * (MsPerSecond \div 2) : h \in 0..MaxSeekHalfSeconds}

\* The length of the media, known to the primary once its metadata is
\* loaded.
DurationMs == 2 * MsPerSecond

\* The number num / den as the argument of seekTo.
SeekArg(num, den) == [num |-> num, den |-> den]

\* current.seekTo(e) with e in seconds
SecondsArg(ms) == SeekArg(ms, MsPerSecond)

\* fraction = prediction.time / 1000 / duration, where duration is
\* getDuration() || -1
TableFraction(timeMs, loaded) ==
    IF loaded THEN SeekArg(timeMs, DurationMs)
    ELSE SeekArg(0 - timeMs, MsPerSecond)

ClampMs(ms) ==
    IF ms < 0 THEN 0 ELSE IF ms > DurationMs THEN DurationMs ELSE ms

\* Where the primary seeks to on seekTo(arg): an argument strictly between
\* 0 and 1 is a fraction of the duration (and is dropped while the
\* duration is unknown), any other argument is a position in seconds.
SeekTarget(arg, loaded) ==
    IF arg.num > 0 /\ arg.num < arg.den
    THEN IF loaded THEN <<(DurationMs * arg.num) \div arg.den>> ELSE <<>>
    ELSE <<ClampMs((arg.num * MsPerSecond) \div arg.den)>>

\* The seeked event that is due after seekTo(arg).
SeekedAfter(due, arg, loaded) ==
    IF SeekTarget(arg, loaded) = <<>> THEN due ELSE SeekTarget(arg, loaded)

\* A call on peakInstance.player.
PeaksCommand(op, at) == [op |-> op, at |-> at]

\* const { current } = this.playerRef; if (current) { current.seekTo(e); }
SeekTo(arg) ==
    /\ primaryCmd' = IF sourceUrl THEN <<arg>> ELSE <<>>
    /\ seeked' = IF sourceUrl THEN SeekedAfter(seeked, arg, metadataLoaded)
                 ELSE seeked
    /\ seekToParity' = IF sourceUrl THEN 1 - seekToParity ELSE seekToParity

\* const { peakInstance } = this.state;
\* if (peakInstance) { peakInstance.player.play() / pause(); }
MirrorToPeaks(op) ==
    peaksCmd' = IF peakInstance THEN <<PeaksCommand(op, <<>>)>> ELSE <<>>

\* ReactPlayer onPlay: the media element follows the playing prop.
OnPlay ==
    /\ sourceUrl /\ playing /\ ~primaryPlaying
    /\ primaryPlaying' = TRUE
    /\ MirrorToPeaks("play")
    /\ primaryCmd' = <<>>
    /\ UNCHANGED <<propsPredictions, propsLabels, mounted, predictions, models,
                   classifications, predictionsByTime, currentPlaybackTime,
                   playing, sourceUrl, peakInstance, waveformReady, peaksError,
                   peaksInit, seeked, playerSeek, metadataLoaded,
                   seekToParity>>

\* ReactPlayer onPause
OnPause ==
    /\ sourceUrl /\ ~playing /\ primaryPlaying
    /\ primaryPlaying' = FALSE
    /\ MirrorToPeaks("pause")
    /\ primaryCmd' = <<>>
    /\ UNCHANGED <<propsPredictions, propsLabels, mounted, predictions, models,
                   classifications, predictionsByTime, currentPlaybackTime,
                   playing, sourceUrl, peakInstance, waveformReady, peaksError,
                   peaksInit, seeked, playerSeek, metadataLoaded,
                   seekToParity>>

\* Variant: a seek handler that also seeks the secondary.
OnSeekMirrored(e) ==
    /\ sourceUrl /\ seeked = <<e>>
    /\ SeekTo(SecondsArg(e))
    /\ peaksCmd' = IF peakInstance THEN <<PeaksCommand("seek", <<e>>)>>
                   ELSE <<>>
    /\ UNCHANGED <<propsPredictions, propsLabels, mounted, predictions, models,
                   classifications, predictionsByTime, currentPlaybackTime,
                   playing, sourceUrl, peakInstance, waveformReady, peaksError,
                   peaksInit, primaryPlaying, playerSeek, metadataLoaded>>

\* ReactPlayer onSeek = this.seek, called with the position of the seeked
\* event in seconds.
OnSeek(e) ==
    /\ sourceUrl /\ seeked = <<e>>
    /\ SeekTo(SecondsArg(e))
    /\ peaksCmd' = <<>>
    /\ UNCHANGED <<propsPredictions, propsLabels, mounted, predictions, models,
                   classifications, predictionsByTime, currentPlaybackTime,
                   playing, sourceUrl, peakInstance, waveformReady, peaksError,
                   peaksInit, primaryPlaying, playerSeek, metadataLoaded>>

\* Variant: a player_seek handler that also moves the logical time.
PlayerSeekSetsTime(e) ==
    /\ peakInstance /\ playerSeek = <<e>>
    /\ playerSeek' = <<>>
    /\ SeekTo(SecondsArg(e))
    /\ peaksCmd' = <<>>
    /\ currentPlaybackTime' = e
    /\ UNCHANGED <<propsPredictions, propsLabels, mounted, predictions, models,
                   classifications, predictionsByTime,
                   playing, sourceUrl, peakInstance, waveformReady, peaksError,
                   peaksInit, primaryPlaying, metadataLoaded>>

\* peakInstance.on("player_seek")
PlayerSeek(e) ==
    /\ peakInstance /\ playerSeek = <<e>>
    /\ playerSeek' = <<>>
    /\ SeekTo(SecondsArg(e))
    /\ peaksCmd' = <<>>
    /\ UNCHANGED <<propsPredictions, propsLabels, mounted, predictions, models,
                   classifications, predictionsByTime, currentPlaybackTime,
                   playing, sourceUrl, peakInstance, waveformReady, peaksError,
                   peaksInit, primaryPlaying, metadataLoaded>>

\* The Seek button of a table row: play
TableSeek(ref) ==
    /\ mounted /\ ref \in DOMAIN predictions
    /\ PassesFilter(classifications, models, predictions[ref])
    /\ SeekTo(TableFraction(predictions[ref].time, metadataLoaded))
    /\ peaksCmd' = IF peakInstance
                   THEN <<PeaksCommand("seek", <<predictions[ref].time>>)>>
                   ELSE <<>>
    /\ playerSeek' = IF peakInstance THEN <<ClampMs(predictions[ref].time)>>
                     ELSE playerSeek
    /\ UNCHANGED <<propsPredictions, propsLabels, mounted, predictions, models,
                   classifications, predictionsByTime, currentPlaybackTime,
                   playing, sourceUrl, peakInstance, waveformReady, peaksError,
                   peaksInit, primaryPlaying, metadataLoaded>>

\* The user seeks on the waveform: Peaks moves its media element and emits
\* player_seek.
WaveformSeek(t) ==
    /\ peakInstance /\ playerSeek = <<>>
    /\ playerSeek' = <<t>>
    /\ primaryCmd' = <<>>
    /\ peaksCmd' = <<>>
    /\ UNCHANGED <<propsPredictions, propsLabels, mounted, predictions, models,
                   classifications, predictionsByTime, currentPlaybackTime,
                   playing, sourceUrl, peakInstance, waveformReady, peaksError,
                   peaksInit, primaryPlaying, seeked, metadataLoaded,
                   seekToParity>>

\* The primary's media element loads its metadata: duration and native
\* size are known from here on.
MetadataLoaded ==
    /\ sourceUrl /\ ~metadataLoaded
    /\ metadataLoaded' = TRUE
    /\ primaryCmd' = <<>>
    /\ peaksCmd' = <<>>
    /\ UNCHANGED <<propsPredictions, propsLabels, mounted, predictions, models,
                   classifications, predictionsByTime, currentPlaybackTime,
                   playing, sourceUrl, peakInstance, waveformReady, peaksError,
                   peaksInit, primaryPlaying, seeked, playerSeek,
                   seekToParity>>

(***************************************************************************)
(* Inputs.                                                                 *)
(***************************************************************************)
PredPool ==
    { VideoPrediction("violence", 500, Box(10, 10, 5, 5), <<>>, 90),
      VideoPrediction("nudity", 1499, Box(10, 10, 0, 0), <<"modelA">>, 40),
      AudioPrediction("violence", 1000, 1500, <<"">>, 70) }

LabelPool ==
    { VideoLabel("violence", 500, Box(10, 10, 5, 5)),
      AudioLabel("speech", 1000, 1000) }

LabelInputs(pool, n) == {<<>>} \cup {<<l>> : l \in BoundedSeq(pool, n)}

ChangedPredictions == {<<>>}

ChangedLabels == {<<>>, <<<<>>>>}

StateInit ==
    /\ mounted = FALSE
    /\ predictions = <<>>
    /\ models = [m \in {} |-> TRUE]
    /\ classifications = [c \in {} |-> TRUE]
    /\ predictionsByTime = EmptyIndex
    /\ currentPlaybackTime = 0
    /\ playing = FALSE
    /\ peakInstance = FALSE
    /\ waveformReady = FALSE
    /\ peaksError = FALSE
    /\ peaksInit = <<>>
    /\ primaryCmd = <<>>
    /\ peaksCmd = <<>>
    /\ primaryPlaying = FALSE
    /\ seeked = <<>>
    /\ playerSeek = <<>>
    /\ metadataLoaded = FALSE
    /\ seekToParity = 0

Init ==
    /\ propsPredictions \in BoundedSeq(PredPool, MaxPredictions)
    /\ propsLabels \in LabelInputs(LabelPool, MaxLabels)
    /\ sourceUrl \in BOOLEAN
    /\ StateInit

Next ==
    \/ ComponentDidMount
    \/ \E c \in DOMAIN classifications : ToggleClassifier(c)
    \/ \E m \in DOMAIN models : ToggleModel(m)
    \/ \E playedMs \in PlayedMs : OnProgress(playedMs)
    \/ PlayPause
    \/ \E value \in BOOLEAN : AudioSetPlaying(value)
    \/ PeaksReady
    \/ PeaksError
    \/ SelectLocalFile
    \/ \E np \in ChangedPredictions, nl \in ChangedLabels : PropsChange(np, nl)

Spec == Init /\ [][Next]_vars

(***************************************************************************)
(* The component together with its two engines, on one annotation set.     *)
(***************************************************************************)
SyncPredictions ==
    << VideoPrediction("violence", 500, Box(10, 10, 5, 5), <<"modelA">>, 90),
       AudioPrediction("violence", 1000, 1500, <<>>, 70) >>

SyncInit ==
    /\ propsPredictions = SyncPredictions
    /\ propsLabels = <<>>
    /\ sourceUrl \in BOOLEAN
    /\ StateInit

EngineNext ==
    \/ OnPlay
    \/ OnPause
    \/ \E e \in Range(seeked) : OnSeek(e)
    \/ \E e \in Range(playerSeek) : PlayerSeek(e)

UserNext ==
    \/ \E ref \in DOMAIN predictions : TableSeek(ref)
    \/ \E t \in SeekMs : WaveformSeek(t)
    \/ MetadataLoaded

SyncNext == Next \/ EngineNext \/ UserNext

SyncSpec == SyncInit /\ [][SyncNext]_vars

(***************************************************************************)
(* One user action at a time: the user and the ticks act only when no      *)
(* engine event is due, and an engine event that is due is delivered.      *)
(***************************************************************************)
\* No event of an engine is due.
Quiescent ==
    /\ seeked = <<>>
    /\ playerSeek = <<>>
    /\ sourceUrl => primaryPlaying = playing

ChainNext ==
    \/ EngineNext
    \/ Quiescent /\ ComponentDidMount
    \/ Quiescent /\ \E c \in DOMAIN classifications : ToggleClassifier(c)
    \/ Quiescent /\ \E m \in DOMAIN models : ToggleModel(m)
    \/ Quiescent /\ \E playedMs \in PlayedMs : OnProgress(playedMs)
    \/ Quiescent /\ PlayPause
    \/ Quiescent /\ \E value \in BOOLEAN : AudioSetPlaying(value)
    \/ Quiescent /\ PeaksReady
    \/ Quiescent /\ PeaksError
    \/ Quiescent /\ SelectLocalFile
    \/ Quiescent /\ \E np \in ChangedPredictions, nl \in ChangedLabels :
                         PropsChange(np, nl)
    \/ Quiescent /\ \E ref \in DOMAIN predictions : TableSeek(ref)
    \/ Quiescent /\ \E t \in SeekMs : WaveformSeek(t)
    \/ Quiescent /\ MetadataLoaded

ChainSpec == SyncInit /\ [][ChainNext]_vars /\ WF_vars(EngineNext)

(***************************************************************************)
(* The load step alone, on a wider set of inputs.                          *)
(***************************************************************************)
LoadPredPool ==
    { VideoPrediction("violence", 3000, Box(10, 10, 5, 5), <<>>, 1),
      VideoPrediction("nudity", 2500, Box(10, 10, 5, 5), <<"modelA">>, 40),
      VideoPrediction("violence", 2499, Box(10, 10, 0, 0), <<"">>, 70),
      AudioPrediction("violence", 7000, 3000, <<"modelA">>, 90),
      AudioPrediction("nudity", 2500, 1500, <<"Ground-Truth">>, 60),
      AudioPrediction("speech", 3000, 0, <<>>, 50) }

LoadLabelPool ==
    { VideoLabel("violence", 3000, Box(10, 10, 5, 5)),
      AudioLabel("speech", 2500, 1000),
      VideoLabel("nudity", 0, Box(0, 0, 0, 0)) }

LoadInit ==
    /\ propsPredictions \in BoundedSeq(LoadPredPool, MaxLoadPredictions)
    /\ propsLabels \in LabelInputs(LoadLabelPool, MaxLoadLabels)
    /\ sourceUrl = TRUE
    /\ StateInit

LoadNext == ComponentDidMount

LoadSpec == LoadInit /\ [][LoadNext]_vars

(***************************************************************************)
(* Properties.                                                             *)
(***************************************************************************)
Refs == 1..Len(predictions)

\* The number of times `ref` occurs in the bucket of `second`.
Occurrences(ref, second) ==
    Len(SelectSeq(OrEmpty(Lookup(predictionsByTime, second)),
                  LAMBDA r : r = ref))

\* Round half up, by cases on the remainder.
HalfUpSecond(ms) ==
    IF ms % MsPerSecond >= MsPerSecond \div 2
    THEN (ms \div MsPerSecond) + 1
    ELSE ms \div MsPerSecond

\* The least number of whole seconds that cover ms milliseconds.
WholeSeconds(ms) == CHOOSE n \in 0..ms : n * MsPerSecond >= ms
                                        /\ (n = 0 \/ (n - 1) * MsPerSecond < ms)

ExpectedSpan(p) == IF HasDuration(p) THEN WholeSeconds(p.duration[1]) ELSE 1

Occupies(p, second) ==
    /\ HalfUpSecond(p.time) <= second
    /\ second < HalfUpSecond(p.time) + ExpectedSpan(p)

CheckedSeconds ==
    DOMAIN predictionsByTime
    \cup UNION {(HalfUpSecond(predictions[ref].time) - 1)
                ..(HalfUpSecond(predictions[ref].time)
                   + ExpectedSpan(predictions[ref])) : ref \in Refs}

\* C1: every annotation in the bucket of the current second is in the active
\* set (currentPredictions) if and only if its classifier is enabled and, when
\* it carries a model field, its model is enabled.
C1_ActiveIffEnabled ==
    \A ref \in Range(OrEmpty(Lookup(predictionsByTime, CurrentSecond))) :
        (ref \in Range(currentPredictions))
        <=> /\ Enabled(classifications, predictions[ref].classifier)
            /\ HasModel(predictions[ref])
                   => Enabled(models, predictions[ref].model[1])

\* C2: after load every annotation occurs exactly once in each bucket from
\* round(time/1000) over ceil(duration/1000) seconds (one second for an
\* annotation without duration) and in no other bucket.
C2_LosslessIndex ==
    mounted =>
        /\ \A ref \in Refs : \A second \in CheckedSeconds :
               Occurrences(ref, second)
                   = IF Occupies(predictions[ref], second) THEN 1 ELSE 0
        /\ \A second \in DOMAIN predictionsByTime :
               Range(predictionsByTime[second]) \subseteq Refs

C2_Witness ==
    /\ mounted
    /\ \E ref \in Refs :
           /\ predictions[ref].time = 7000
           /\ predictions[ref].duration = <<3000>>
           /\ {s \in CheckedSeconds : Occurrences(ref, s) = 1} = {7, 8, 9}
    /\ \E ref \in Refs :
           /\ predictions[ref].duration = <<1500>>
           /\ Cardinality({s \in CheckedSeconds : Occurrences(ref, s) = 1}) = 2
    /\ \E second \in DOMAIN predictionsByTime :
           Len(predictionsByTime[second]) >= 2

\* C3: a point annotation at time T is in exactly one bucket, floor(T/1000)
\* when T mod 1000 < 500 and floor(T/1000) + 1 otherwise.
C3_PointPlacement ==
    mounted =>
        \A ref \in Refs :
            ~HasDuration(predictions[ref]) =>
                /\ {s \in DOMAIN predictionsByTime :
                        ref \in Range(predictionsByTime[s])}
                       = {HalfUpSecond(predictions[ref].time)}
                /\ Occurrences(ref, HalfUpSecond(predictions[ref].time)) = 1

C3_Witness ==
    /\ mounted
    /\ \E ref \in Refs :
           /\ ~HasDuration(predictions[ref])
           /\ predictions[ref].time = 2500
           /\ Occurrences(ref, 3) = 1
    /\ \E ref \in Refs :
           /\ ~HasDuration(predictions[ref])
           /\ predictions[ref].time = 2499
           /\ Occurrences(ref, 2) = 1

\* The inputs in input order, each label with model "Ground-Truth" and
\* confidence 1.
ExpectedMerged ==
    LET labels == IF propsLabels = <<>> THEN <<>> ELSE propsLabels[1]
    IN  [i \in 1..(Len(propsPredictions) + Len(labels)) |->
            IF i <= Len(propsPredictions) THEN propsPredictions[i]
            ELSE [classifier |-> labels[i - Len(propsPredictions)].classifier,
                  time |-> labels[i - Len(propsPredictions)].time,
                  duration |-> labels[i - Len(propsPredictions)].duration,
                  box |-> labels[i - Len(propsPredictions)].box,
                  model |-> <<"Ground-Truth">>,
                  confidence |-> <<1>>]]

AtTime(s, t) == SelectSeq(s, LAMBDA p : p.time = t)

\* C4: the loaded sequence holds exactly the input predictions and the
\* converted labels, ascending in time, entries of equal time in their
\* original relative order.
C4_MergedSorted ==
    mounted =>
        /\ Len(predictions) = Len(ExpectedMerged)
        /\ \A i \in Refs : \A j \in Refs :
               i < j => predictions[i].time <= predictions[j].time
        /\ \A t \in {p.time : p \in Range(predictions) \cup Range(ExpectedMerged)} :
               AtTime(predictions, t) = AtTime(ExpectedMerged, t)

C4_Witness ==
    /\ mounted
    /\ Len(propsPredictions) >= 2
    /\ propsPredictions[1].time > propsPredictions[2].time
    /\ \E i \in Refs : \E j \in Refs :
           /\ i < j
           /\ predictions[i].time = predictions[j].time
           /\ predictions[i] \in Range(propsPredictions)
           /\ predictions[j].model = <<"Ground-Truth">>
           /\ predictions[j].confidence = <<1>>
           /\ predictions[j] \notin Range(propsPredictions)

LabelsSupplied == propsLabels # <<>> /\ Len(propsLabels[1]) >= 1

SeedsAsStated ==
    /\ DOMAIN classifications = {p.classifier : p \in Range(predictions)}
    /\ DOMAIN models
           = {p.model[1] : p \in {q \in Range(predictions) : HasModel(q)}} \ {""}
    /\ \A c \in DOMAIN classifications : classifications[c]
    /\ \A m \in DOMAIN models : models[m]

\* C5 as stated: right after load the key sets are the distinct classifiers
\* and the distinct non-empty models, every entry is true, and "Ground-Truth"
\* is a model key exactly when a label was supplied.
C5_SeedsGroundTruthIffLabels ==
    mounted =>
        /\ SeedsAsStated
        /\ ("Ground-Truth" \in DOMAIN models) <=> LabelsSupplied

\* C5 amended: right after load the key sets are the distinct classifiers and
\* the distinct non-empty models, every entry is true, and "Ground-Truth" is
\* a model key when a label was supplied, and otherwise only when an input
\* prediction names that model itself.
C5_Seeds ==
    mounted =>
        /\ SeedsAsStated
        /\ LabelsSupplied => "Ground-Truth" \in DOMAIN models
        /\ ("Ground-Truth" \in DOMAIN models)
               => \/ LabelsSupplied
                  \/ \E p \in Range(propsPredictions) :
                         p.model = <<"Ground-Truth">>

C5_Witness ==
    /\ mounted
    /\ LabelsSupplied
    /\ \E p \in Range(predictions) : p.model = <<"">>
    /\ \E p \in Range(predictions) : p.model = <<>>
    /\ DOMAIN models = {"modelA", "Ground-Truth"}
    /\ Cardinality(DOMAIN classifications) >= 2

Changed(old, new) == {k \in DOMAIN old : new[k] # old[k]}

\* C6: a step after load that changes classifications or models changes
\* exactly one entry of the two mappings, keeps both key sets, and leaves the
\* annotation set, the time index, the current time and the Peaks state
\* alone; no step after load changes a key set.
C6_ToggleFrame ==
    [][mounted =>
          /\ DOMAIN classifications' = DOMAIN classifications
          /\ DOMAIN models' = DOMAIN models
          /\ (classifications' # classifications \/ models' # models) =>
                 /\ Cardinality(Changed(classifications, classifications'))
                        + Cardinality(Changed(models, models')) = 1
                 /\ UNCHANGED <<predictions, predictionsByTime,
                                currentPlaybackTime, peakInstance,
                                waveformReady, peaksError>>]_vars

C6_Witness ==
    /\ mounted
    /\ \E c \in DOMAIN classifications : \E d \in DOMAIN classifications :
           ~classifications[c] /\ classifications[d]
    /\ \E m \in DOMAIN models : \E n \in DOMAIN models :
           ~models[m] /\ models[n]

\* C7: an annotation without a model (no model field, or an empty one) whose
\* classifier is enabled is in the active set of its buckets, whatever the
\* state of modelEnabled.
C7_NoModelNeverExcluded ==
    \A second \in DOMAIN predictionsByTime :
        \A ref \in Range(predictionsByTime[second]) :
            (/\ ModelOrEmpty(predictions[ref]) = ""
             /\ Enabled(classifications, predictions[ref].classifier))
            => ref \in Range(FilteredBucket(predictionsByTime, predictions,
                                            classifications, models, second))

Seconds == DOMAIN predictionsByTime \cup {RoundMs(ms) : ms \in PlayedMs}

ActiveSets(index, preds, cls, mdl) ==
    [second \in Seconds |->
        <<FilteredBucket(index, preds, cls, mdl, second),
          VideoOf(index, preds, cls, mdl, second),
          AudioOf(index, preds, cls, mdl, second)>>]

\* C8: when a step switches an enabled classifier c off, switching c on again
\* in the state reached gives every bucket the active set it had before the
\* step.
C8_OffOnRestores ==
    [][\A c \in DOMAIN classifications :
          (/\ mounted
           /\ classifications[c]
           /\ c \in DOMAIN classifications'
           /\ ~classifications'[c])
          => ActiveSets(predictionsByTime', predictions',
                        SetEntry(classifications', c, TRUE), models')
                 = ActiveSets(predictionsByTime, predictions,
                              classifications, models)]_vars

C8_Witness ==
    /\ mounted
    /\ \E c \in DOMAIN classifications : ~classifications[c]
    /\ \E m \in DOMAIN models : ~models[m]
    /\ \E second \in Seconds :
           /\ Len(OrEmpty(Lookup(predictionsByTime, second))) >= 2
           /\ ActiveSets(predictionsByTime, predictions,
                         [c \in DOMAIN classifications |-> TRUE], models)[second]
                  # ActiveSets(predictionsByTime, predictions, classifications,
                               models)[second]

\* C9: once componentDidMount has run, no step changes the annotation set or
\* the time index.
C9_LoadOnce ==
    [][mounted => UNCHANGED <<predictions, predictionsByTime>>]_vars

C9_Witness ==
    /\ mounted
    /\ Len(predictions) >= 1
    /\ predictions # SortByTime(MergeInputs(propsPredictions, propsLabels))
    /\ peakInstance /\ waveformReady
    /\ currentPlaybackTime # 0
    /\ \E c \in DOMAIN classifications : ~classifications[c]

\* C10: a lookup before the index is built, or for a second without a
\* bucket, gives empty active sets and does not fail.
C10_LookupTotal ==
    \A second \in Seconds :
        (~mounted \/ second \notin DOMAIN predictionsByTime)
        => ActiveSets(predictionsByTime, predictions, classifications,
                      models)[second] = <<<<>>, <<>>, <<>>>>

C10_Witness ==
    /\ mounted
    /\ DOMAIN predictionsByTime # {}
    /\ CurrentSecond \notin DOMAIN predictionsByTime
    /\ currentPlaybackTime # 0
    /\ currentPredictions = <<>>

(***************************************************************************)
(* The overlay: what the Layer draws.                                      *)
(***************************************************************************)
\* hasValidBoundingBox = p.width > 0 && p.height > 0
HasValidBoundingBox(p) == p.box[1].width > 0 /\ p.box[1].height > 0

\* The Path (location marker) of each current video prediction; the Stage
\* is rendered only with a sourceUrl.
DrawnMarkers ==
    IF sourceUrl THEN Range(currentVideoPredictions) ELSE {}

\* The Rect of each current video prediction that has a valid box.
DrawnBoxes ==
    {ref \in DrawnMarkers : HasValidBoundingBox(predictions[ref])}

\* An annotation that has a box and no duration.
IsPointAnnotation(p) == HasBox(p) /\ ~HasDuration(p)

\* The filter predicate as stated: classifier enabled, and model enabled
\* when the annotation names one.
IsActive(p) ==
    /\ Enabled(classifications, p.classifier)
    /\ ModelOrEmpty(p) # "" => Enabled(models, p.model[1])

\* videoWidth of the internal player: -1 without a player, 0 until the
\* metadata is loaded, the native width after.
videoWidth ==
    IF ~sourceUrl THEN UnknownSize
    ELSE IF metadataLoaded THEN 2 * OffsetWidth ELSE 0

videoHeight ==
    IF ~sourceUrl THEN UnknownSize
    ELSE IF metadataLoaded THEN 2 * OffsetHeight ELSE 0

\* a / b as JavaScript computes it: the ratio, or Infinity for a positive a
\* and b = 0.
Divide(a, b) == IF b = 0 THEN "Infinity" ELSE <<a, b>>

\* The scale handed to the Stage, if a Stage is rendered.
StageScale ==
    IF sourceUrl
    THEN <<[x |-> Divide(OffsetWidth, videoWidth),
            y |-> Divide(OffsetHeight, videoHeight)]>>
    ELSE <<>>

\* The Path of each current audio prediction.
DrawnAudioMarkers ==
    IF sourceUrl THEN Range(currentAudioPredictions) ELSE {}

\* C16: in a render of the mounted component, while a native dimension is
\* not positive, no scale is produced and no shape is drawn.
C16_NoOverlayUntilSized ==
    (mounted /\ (videoWidth <= 0 \/ videoHeight <= 0))
    => /\ StageScale = <<>>
       /\ DrawnMarkers = {}
       /\ DrawnBoxes = {}
       /\ DrawnAudioMarkers = {}

\* C17: every active point annotation in the bucket of the current second
\* has its location marker drawn, and its box drawn exactly when its
\* width and height are positive.
C17_MarkerAlwaysBoxIffPositive ==
    (mounted /\ sourceUrl) =>
        \A ref \in Range(OrEmpty(Lookup(predictionsByTime, CurrentSecond))) :
            (IsPointAnnotation(predictions[ref]) /\ IsActive(predictions[ref]))
            => /\ ref \in DrawnMarkers
               /\ ref \in DrawnBoxes <=> HasValidBoundingBox(predictions[ref])

(***************************************************************************)
(* The table.                                                              *)
(***************************************************************************)
\* predictions.filter(p => classifications[p.classifier] && "model" in p
\*                          ? models[p.model || ""] : true)
TableRows ==
    {ref \in DOMAIN predictions :
        PassesFilter(classifications, models, predictions[ref])}

\* C20: an annotation is a table row exactly when its classifier is enabled
\* and it has no model field or its model is enabled.
C20_TableRowsIffEnabled ==
    \A ref \in Refs :
        (ref \in TableRows)
        <=> /\ Enabled(classifications, predictions[ref].classifier)
            /\ HasModel(predictions[ref])
                   => Enabled(models, predictions[ref].model[1])

(***************************************************************************)
(* The synchronizer.                                                       *)
(***************************************************************************)
\* Unbound: no Peaks instance; Error: an error was reported; Ready: ready
\* was reported; Bound otherwise.
SyncState ==
    IF ~peakInstance THEN "Unbound"
    ELSE IF peaksError THEN "Error"
    ELSE IF waveformReady THEN "Ready"
    ELSE "Bound"

SyncTransitions ==
    { <<"Unbound", "Bound">>, <<"Bound", "Ready">>, <<"Bound", "Error">>,
      <<"Ready", "Error">> }

\* C11: the synchronizer state changes only by Unbound -> Bound,
\* Bound -> Ready, Bound -> Error and Ready -> Error.
C11_SyncTransitions ==
    [][SyncState' # SyncState => <<SyncState, SyncState'>> \in SyncTransitions]_vars

C11_Witness ==
    /\ SyncState = "Error"
    /\ waveformReady
    /\ primaryPlaying
    /\ currentPlaybackTime # 0

\* A step in which the player_seek handler takes the secondary's seek and
\* calls seekTo on the primary.
ForwardsSeek ==
    playerSeek # <<>> /\ playerSeek' = <<>> /\ primaryCmd' # <<>>

\* C12: once the error is reported, no step sends a command to the
\* secondary engine and no step forwards a seek of the secondary to the
\* primary.
C12_NoSyncAfterError ==
    [][peaksError => (peaksCmd' = <<>> /\ ~ForwardsSeek)]_vars

\* The commands to the secondary engine that are seeks.
SeeksOfPeaks(cmds) == {i \in DOMAIN cmds : cmds[i].op = "seek"}

\* A step that is an event of the primary engine other than play and pause:
\* a seek or a progress tick.
PrimarySeekOrTick ==
    \/ \E e \in Range(seeked) : OnSeek(e)
    \/ \E playedMs \in PlayedMs : OnProgress(playedMs)

\* C13: a play event of the primary sends exactly play to an attached
\* secondary, a pause event exactly pause, and no event of the primary
\* sends a seek to the secondary.
C13_MirrorPlayPauseOnly ==
    [][/\ OnPlay =>
            peaksCmd' = IF peakInstance THEN <<PeaksCommand("play", <<>>)>>
                        ELSE <<>>
       /\ OnPause =>
            peaksCmd' = IF peakInstance THEN <<PeaksCommand("pause", <<>>)>>
                        ELSE <<>>
       /\ (OnPlay \/ OnPause \/ PrimarySeekOrTick)
            => SeeksOfPeaks(peaksCmd') = {}]_vars

C13_Witness ==
    /\ peakInstance
    /\ primaryPlaying
    /\ peaksCmd = <<PeaksCommand("play", <<>>)>>
    /\ seeked # <<>>

\* C14: when the secondary emits a seek at position e while the player is
\* mounted and knows its duration, the handler issues one seekTo on the
\* primary that the primary reads as position e, and nothing on the
\* secondary.
C14_ForwardsSamePosition ==
    [][\A e \in Range(playerSeek) :
          (PlayerSeek(e) /\ sourceUrl /\ metadataLoaded)
          => /\ Len(primaryCmd') = 1
             /\ SeekTarget(primaryCmd'[1], metadataLoaded) = <<e>>
             /\ peaksCmd' = <<>>]_vars

\* C15: the logical time changes only in a progress tick, which sets it to
\* the reported playedSeconds, and the bucket the render consults is the one
\* of the time rounded half up.
C15_TimeOnlyByTick ==
    /\ [](currentPredictions =
              FilteredBucket(predictionsByTime, predictions, classifications,
                             models, HalfUpSecond(currentPlaybackTime)))
    /\ [][currentPlaybackTime' # currentPlaybackTime
          => \E playedMs \in PlayedMs :
                 OnProgress(playedMs) /\ currentPlaybackTime' = playedMs]_vars

C15_Witness ==
    /\ currentPlaybackTime % MsPerSecond # 0
    /\ currentPredictions # <<>>
    /\ seekToParity = 1
    /\ primaryPlaying
    /\ waveformReady
    /\ \E c \in DOMAIN classifications : ~classifications[c]

\* C18: Peaks.init is called at most once, and then on a mounted component
\* with its media element, with the segments and points of the annotation
\* set that componentDidMount built.
C18_InitOnce ==
    /\ Len(peaksInit) <= 1
    /\ peaksInit # <<>>
       => /\ mounted /\ sourceUrl /\ peakInstance
          /\ predictions = SortByTime(MergeInputs(SyncPredictions, <<>>))
          /\ Len(peaksInit[1].segments) =
                 Cardinality({ref \in Refs : HasDuration(predictions[ref])})
          /\ Len(peaksInit[1].points) =
                 Cardinality({ref \in Refs : IsVideo(predictions[ref])})

C18_Witness ==
    /\ Len(peaksInit) = 1
    /\ Len(peaksInit[1].segments) = 1
    /\ Len(peaksInit[1].points) = 1
    /\ primaryPlaying
    /\ currentPlaybackTime # 0
    /\ propsPredictions # SyncPredictions
    /\ \E c \in DOMAIN classifications : ~classifications[c]

\* C19: whenever an engine event is due, the chain of events and commands
\* it belongs to ends: a state with no event due follows.
C19_ChainsEnd == (~Quiescent) ~> Quiescent

\* isPlaying = Math.round(prediction.time / 1000) ===
\*             Math.round(currentPlaybackTime)
IsPlaying(p) == RoundMs(p.time) = RoundMs(currentPlaybackTime)

\* The table rows marked as playing.
PlayingRows == {ref \in TableRows : IsPlaying(predictions[ref])}

\* C21: a listed annotation is marked as playing exactly when it is in the
\* bucket of the current time rounded half up; a segment is marked during
\* every second of its span.
C21_PlayingIffInBucket ==
    mounted =>
        \A ref \in TableRows :
            (ref \in PlayingRows)
            <=> ref \in Range(OrEmpty(Lookup(predictionsByTime,
                                             HalfUpSecond(currentPlaybackTime))))

\* The end of a segment as the table shows it: (duration + time) / 1000,
\* kept in ms.
TableEndMs(p) == p.duration[1] + p.time

\* C22: every segment handed to Peaks starts at the annotation's time and
\* ends at time + duration, the end the table shows; its length is the
\* annotation's duration.
C22_SegmentSpansDuration ==
    \A k \in DOMAIN peaksInit :
        LET audio == SelectSeq(predictions, HasDuration)
        IN  /\ Len(peaksInit[k].segments) = Len(audio)
            /\ \A i \in DOMAIN audio :
                   /\ peaksInit[k].segments[i].startMs = audio[i].time
                   /\ peaksInit[k].segments[i].endMs = TableEndMs(audio[i])
                   /\ peaksInit[k].segments[i].endMs
                          - peaksInit[k].segments[i].startMs
                      = audio[i].duration[1]

====
